---- MODULE Spec2Model ----
(***************************************************************************)
(* ByeSky (src/byesky.py): the fetch / filter / backup / delete pipeline   *)
(* of process_posts and the exit protocol of cli, as a state machine.      *)
(*                                                                         *)
(* Time is counted in hours.  A timestamp is a wall-clock reading plus an  *)
(* optional UTC offset; a text is a sequence of one-character strings; a   *)
(* uri is its sequence of "/"-separated segments.                          *)
(***************************************************************************)
EXTENDS Integers, Sequences, FiniteSets, TLC

\* ------------------------------------------------------------------ bounds
\* Most pages a feed of the model has.
MaxPages == 3
\* Most posts on one page of the model.
MaxPageLen == 2

\* ------------------------------------------------------- program constants
\* stop_after_attempt(3)
MaxAttempts == 3
\* limit=50 of the page fetch, and the factor of "scanned"
PageSize == 50

\* ------------------------------------------------------------- timestamps
HoursPerDay == 24

Ts(tag, clock, off) == [tag |-> tag, clock |-> clock, off |-> off]
\* Python's None, for an optional timestamp argument
NoneTs == Ts("none", 0, 0)
Naive(clock) == Ts("naive", clock, 0)
Aware(clock, off) == Ts("aware", clock, off)

\* datetime.min and the last hour of datetime.max, on the clock of the model
MinClock == 0
MaxClock == 4000

Abs(n) == IF n < 0 THEN 0 - n ELSE n

\* datetime.astimezone(timezone.utc), where it returns: an aware value keeps
\* its instant; a naive value is read as local time of the machine.
AstimezoneUTC(ts, local_off) ==
    IF ts.tag = "aware" THEN ts.clock - ts.off ELSE ts.clock - local_off

\* The interpreters the program runs under: CPython up to 3.11, and CPython
\* 3.12 and later, which differ in where astimezone raises
Interpreters == {"cp311", "cp312"}

\* datetime.astimezone(timezone.utc) raises: for an aware value when its
\* instant in UTC falls outside datetime.min .. datetime.max (OverflowError);
\* for a naive value on the first day of year 1 in every zone and, next to
\* datetime.max, within the zone's offset of it (up to 3.11) or on the whole
\* last day (3.12 and later) (ValueError or OverflowError).
AstimezoneRaises(ts, e) ==
    IF ts.tag = "aware"
    THEN ts.clock - ts.off < MinClock \/ ts.clock - ts.off > MaxClock
    ELSE \/ ts.clock < MinClock + HoursPerDay
         \/ IF e.interp = "cp311"
            THEN ts.clock + Abs(e.local_off) > MaxClock
            ELSE ts.clock > MaxClock - HoursPerDay

\* lines 90-94: astimezone(utc), and where that raises the except branch,
\* replace(tzinfo=utc), which keeps the clock reading and attaches UTC
NormalizeIndexedAt(ts, e) ==
    IF AstimezoneRaises(ts, e) THEN ts.clock ELSE AstimezoneUTC(ts, e.local_off)

\* lines 64-65: parser.parse(x).astimezone(utc) if x else None, for bounds
\* away from datetime.min and datetime.max
ParseBound(ts, local_off) ==
    IF ts.tag = "none"
    THEN [set |-> FALSE, at |-> 0]
    ELSE [set |-> TRUE, at |-> AstimezoneUTC(ts, local_off)]

\* line 61
Cutoff(now, days_old) == now - days_old * HoursPerDay

\* ------------------------------------------------------------------ texts
Lower(c) ==
    CASE c = "F" -> "f"
      [] c = "O" -> "o"
      [] c = "B" -> "b"
      [] OTHER -> c

\* p.lower() in text.lower()
SubstringCI(p, t) ==
    \E s \in 0..(Len(t) - Len(p)) :
        \A i \in 1..Len(p) : Lower(p[i]) = Lower(t[s + i])

\* re.compile(p, re.IGNORECASE).search(text), for patterns made of literal
\* characters and ".", which matches any character but a newline.
RegexSearchCI(p, t) ==
    \E s \in 0..(Len(t) - Len(p)) :
        \A i \in 1..Len(p) :
            IF p[i] = "." THEN t[s + i] # "\n" ELSE Lower(p[i]) = Lower(t[s + i])

\* line 161: text.replace("\n", " ")
CollapseNewlines(t) == [i \in 1..Len(t) |-> IF t[i] = "\n" THEN " " ELSE t[i]]

\* ------------------------------------------------------------------ posts
RepostView == "app.bsky.embed.record#view"
ImagesView == "app.bsky.embed.images#view"
\* what reading an attribute the object does not have stands for
NoAttr == "<no attribute>"
\* embed is None; dollar is the value under the name "$type", type the value
\* of the attribute named type
NoEmbed == [kind |-> "none", dollar |-> "", type |-> NoAttr]
\* a dict with the key "$type"
DictEmbed(dollar) == [kind |-> "dict", dollar |-> dollar, type |-> NoAttr]
\* an object that carries an attribute literally named "$type" and, unless
\* type is NoAttr, an attribute named type
AttrEmbed(dollar, type) == [kind |-> "attr", dollar |-> dollar, type |-> type]

\* lines 101-108
IsReply(post) == post.reply
\* line 105 tests for the attribute "$type", line 106 compares embed.type
IsRepost(post) ==
    IF post.embed.kind = "attr" THEN post.embed.type = RepostView
    ELSE IF post.embed.kind = "dict" THEN post.embed.dollar = RepostView
    ELSE FALSE
\* line 106: embed.type raises AttributeError when the object has no such
\* attribute
EmbedRaises(post) == post.embed.kind = "attr" /\ post.embed.type = NoAttr

Uri(rkey) == <<"at:", "", "did:plc:u", "app.bsky.feed.post", rkey>>
\* line 46: uri.split("/")[-1]
RKey(uri) == uri[Len(uri)]

P1 == [uri |-> Uri("a1"), indexed_at |-> Aware(1040, 0), reply |-> FALSE,
       embed |-> NoEmbed, text |-> <<"F", "o", "\n", "b">>]
P2 == [uri |-> Uri("a2"), indexed_at |-> Naive(802), reply |-> TRUE,
       embed |-> NoEmbed, text |-> <<"b", "a", "r">>]
P3 == [uri |-> Uri("a3"), indexed_at |-> Aware(1278, 2), reply |-> FALSE,
       embed |-> DictEmbed(RepostView), text |-> <<"f", "x", "O">>]
\* a post whose embed has "$type" but no attribute type
P4 == [uri |-> Uri("a4"), indexed_at |-> Aware(900, 0), reply |-> FALSE,
       embed |-> AttrEmbed(RepostView, NoAttr), text |-> <<"f", "o">>]
PostPool == {P1, P2, P3}

\* ---------------------------------------------------------------- filter
\* lines 71-76: compiled_patterns is empty when match_patterns is empty
CompiledPatterns(o) == o.match_patterns

\* lines 119-124
TextMatched(o, text) ==
    IF Len(CompiledPatterns(o)) > 0
    THEN IF o.use_regex
         THEN \E j \in 1..Len(o.match_patterns) : RegexSearchCI(o.match_patterns[j], text)
         ELSE \E j \in 1..Len(o.match_patterns) : SubstringCI(o.match_patterns[j], text)
    ELSE TRUE

\* lines 114-118
InRange(o, pt, local_off) ==
    LET after_dt == ParseBound(o.after, local_off)
        before_dt == ParseBound(o.before, local_off)
    IN  /\ ~(after_dt.set /\ pt < after_dt.at)
        /\ ~(before_dt.set /\ pt > before_dt.at)

\* lines 99-126: whether the item is appended to posts
Selected(o, e, post) ==
    LET pt == NormalizeIndexedAt(post.indexed_at, e)
    IN  /\ pt < Cutoff(e.now, o.days_old)
        /\ ~((IsReply(post) /\ ~o.include_replies) \/ (IsRepost(post) /\ ~o.include_reposts))
        /\ InRange(o, pt, e.local_off)
        /\ TextMatched(o, post.text)

\* lines 99-106: handling the item raises, which ends process_posts
ItemRaises(o, e, post) ==
    /\ NormalizeIndexedAt(post.indexed_at, e) < Cutoff(e.now, o.days_old)
    /\ EmbedRaises(post)

\* the items of a page before the first one that raises (all, if none does)
RECURSIVE ItemsBeforeRaise(_, _, _)
ItemsBeforeRaise(o, e, items) ==
    IF items = <<>> \/ ItemRaises(o, e, Head(items)) THEN <<>>
    ELSE <<Head(items)>> \o ItemsBeforeRaise(o, e, Tail(items))

PageRaises(o, e, items) == \E i \in 1..Len(items) : ItemRaises(o, e, items[i])

\* line 126: the tuple (uri, post, pt)
Entry(e, post) ==
    [uri |-> post.uri, post |-> post, pt |-> NormalizeIndexedAt(post.indexed_at, e)]

\* Mutant: the posts of a page are collected last first
RECURSIVE FilterItemsReversed(_, _, _)
FilterItemsReversed(o, e, items) ==
    IF items = <<>> THEN <<>>
    ELSE FilterItemsReversed(o, e, Tail(items))
         \o (IF Selected(o, e, Head(items)) THEN <<Entry(e, Head(items))>> ELSE <<>>)

\* lines 89-126: the posts one page adds, in page order
RECURSIVE FilterItems(_, _, _)
FilterItems(o, e, items) ==
    IF items = <<>> THEN <<>>
    ELSE (IF Selected(o, e, Head(items)) THEN <<Entry(e, Head(items))>> ELSE <<>>)
         \o FilterItems(o, e, Tail(items))

\* ------------------------------------------------------- the feed service
\* Python's None for the cursor; the empty string is the other falsy cursor.
NoneCursor == "None"
CursorTokens == <<"c1", "c2", "c3", "c4", "c5">>

\* line 129: not cursor
Falsy(c) == c = NoneCursor \/ c = ""

\* get_author_feed: the page a cursor addresses (no cursor: the first page)
PageIndex(c) ==
    IF c = NoneCursor THEN 1 ELSE CHOOSE i \in 1..Len(CursorTokens) : CursorTokens[i] = c
GetAuthorFeed(fd, c) == fd[PageIndex(c)]

\* Sequences without repetition over S, of length at most n
SeqsUpTo(S, n) ==
    UNION {{s \in [1..m -> S] : \A i, j \in 1..m : i # j => s[i] # s[j]} : m \in 0..n}

RECURSIVE Flatten(_)
Flatten(pages) ==
    IF pages = <<>> THEN <<>> ELSE Head(pages) \o Flatten(Tail(pages))

NoRepeat(s) == \A i, j \in 1..Len(s) : i # j => s[i] # s[j]

\* The orders the service holds the posts in: newest first, and an order
\* that is not sorted by time
NewestFirst == <<P3, P1, P2>>
ServiceOrders == {NewestFirst, <<P1, P2, P3>>}
Position(order, post) == CHOOSE k \in 1..Len(order) : order[k] = post
\* s takes its posts from order, in the order they have there
InOrder(s, order) ==
    /\ \A i \in 1..Len(s) : \E k \in 1..Len(order) : order[k] = s[i]
    /\ \A i, j \in 1..Len(s) : i < j => Position(order, s[i]) < Position(order, s[j])

\* A feed of n pages: page i < n carries the cursor of page i + 1, the last
\* page carries an absent cursor or (on a feed of one page) an empty one; the
\* posts come in one of the service orders and no post is served twice.  The
\* pages of a feed of several pages hold a post each at least.
FeedsOf(n) ==
    {[i \in 1..n |-> [feed |-> items[i],
                      cursor |-> IF i < n THEN CursorTokens[i + 1] ELSE last]] :
        items \in {it \in [1..n -> SeqsUpTo(PostPool, MaxPageLen)] :
                      /\ n > 1 => \A i \in 1..n : it[i] # <<>>
                      /\ \E order \in ServiceOrders : InOrder(Flatten(it), order)},
        last \in IF n = 1 THEN {NoneCursor, ""} ELSE {NoneCursor}}
\* Feeds with a page that holds no post: the first page, the last page (which
\* ends the feed with an empty cursor), both pages
EmptyPageFeeds ==
    { <<[feed |-> <<>>, cursor |-> CursorTokens[2]],
        [feed |-> <<P3, P1>>, cursor |-> NoneCursor]>>,
      <<[feed |-> <<P1, P2>>, cursor |-> CursorTokens[2]],
        [feed |-> <<>>, cursor |-> ""]>>,
      <<[feed |-> <<>>, cursor |-> CursorTokens[2]],
        [feed |-> <<>>, cursor |-> NoneCursor]>> }
\* Feeds with the post whose embed raises: alone, after a post that is
\* matched, and on the second page
RaisingFeeds ==
    { <<[feed |-> <<P4>>, cursor |-> NoneCursor]>>,
      <<[feed |-> <<P1, P4>>, cursor |-> ""]>>,
      <<[feed |-> <<P1>>, cursor |-> CursorTokens[2]],
        [feed |-> <<P4, P2>>, cursor |-> NoneCursor]>> }
Feeds == UNION {FeedsOf(n) : n \in 1..MaxPages} \cup EmptyPageFeeds \cup RaisingFeeds

\* ------------------------------------------------------------ run options
FilterChoices ==
    { [days_old |-> 30, after |-> NoneTs, before |-> NoneTs, match_patterns |-> <<>>,
       use_regex |-> FALSE, include_replies |-> TRUE, include_reposts |-> TRUE],
      [days_old |-> 30, after |-> Aware(800, 0), before |-> Naive(1200),
       match_patterns |-> <<<<"f", ".", "o">>, <<"B">>>>,
       use_regex |-> TRUE, include_replies |-> TRUE, include_reposts |-> FALSE],
      [days_old |-> 40, after |-> NoneTs, before |-> NoneTs,
       match_patterns |-> <<<<"f", "O">>>>,
       use_regex |-> FALSE, include_replies |-> TRUE, include_reposts |-> TRUE] }

\* the quiet runs are taken in preview mode
Options ==
    {o \in [preview_only : BOOLEAN, quiet : BOOLEAN, filter : FilterChoices] :
        o.quiet => o.preview_only}

\* The machine's clock, time zone and interpreter when the run starts.  The
\* posts of the feeds are far from datetime.min and datetime.max, where the
\* interpreters agree.
Envs == {[now |-> 2000, local_off |-> 0, interp |-> "cp311"]}
\* Machines in two time zones under either interpreter, for the filter taken
\* alone
FilterEnvs == {[now |-> 2000, local_off |-> z, interp |-> i] : z \in {0, 2}, i \in Interpreters}

\* A file of the disk: absent, or present with its whole lines, followed by
\* the fragment of one more record when a write to it broke off part-way
\* (torn holds the record the fragment was cut from)
AbsentFile == [exists |-> FALSE, lines |-> <<>>, torn |-> <<>>]
OldLogLine == [time |-> 0, text |-> <<"o", "l", "d">>]
OldBackupEntry == [uri |-> Uri("a0"), datetime |-> 0, post |-> [text |-> <<"o", "l", "d">>]]
OldFile(line) == [exists |-> TRUE, lines |-> <<line>>, torn |-> <<>>]

\* ------------------------------------------------------------------ state
VARIABLES
    opts,           \* the arguments of process_posts
    env,            \* the machine's clock and time zone
    feed,           \* the pages the service holds for the actor
    disk0,          \* the log and backup files as they were before the run
    pc,             \* where the run is
    cursor,         \* line 68 / 127
    posts,          \* line 67: the matched (uri, post, pt) tuples
    page_bar_n,     \* page_bar.n
    attempt,        \* the attempt the retry policy is at, for the current call
    idx,            \* position of the processing loop in posts (1-based)
    deleted,        \* line 146
    failed,         \* line 146
    f,              \* the log file handle: "none", "open" or "closed"
    backup_fh,      \* the backup file handle: "none", "open" or "closed"
    log_disk,       \* the log file on disk
    backup_disk,    \* the backup file on disk
    log_buf,        \* the records f.write took that have not reached the disk
    backup_buf,     \* the entries backup_fh.write took that have not reached it
    requests,       \* the cursors of the successful page fetches, in order
    served,         \* the page numbers the service handed out, in order
    last_sent,      \* the cursor of the latest fetch attempt
    delete_calls,   \* rkey -> number of delete_record attempts issued
    calls,          \* the calls of the processing loop so far, in order
    removed,        \* the rkeys the service has deleted
    error,          \* the exception that ended process_posts, or "none"
    result,         \* the dictionary process_posts returned
    summary,        \* whether cli printed the summary block
    exit_status     \* the process exit status, -1 while running

vars == <<opts, env, feed, disk0, pc, cursor, posts, page_bar_n, attempt, idx, deleted,
          failed, f, backup_fh, log_disk, backup_disk, log_buf, backup_buf, requests,
          served, last_sent, delete_calls, calls, removed, error, result, summary, exit_status>>

inputs == <<opts, env, feed, disk0>>
fetch_state == <<cursor, posts, page_bar_n, requests, served, last_sent>>
loop_state == <<idx, deleted, failed>>
log_file == <<log_disk, log_buf>>
backup_file == <<backup_disk, backup_buf>>
files == <<f, backup_fh, log_file, backup_file>>
remote == <<delete_calls, removed, calls>>
cli_state == <<summary, exit_status>>

NoResult == [returned |-> FALSE, scanned |-> 0, matched |-> 0, deleted |-> 0, failed |-> 0]
Result(s, m, d, x) ==
    [returned |-> TRUE, scanned |-> s, matched |-> m, deleted |-> d, failed |-> x]

RKeys == {RKey(p.uri) : p \in PostPool \cup {P4}}

\* lines 59-68 and 146-147: the run before its first step, for given inputs
RunStart ==
    /\ pc = "login"
    /\ cursor = NoneCursor
    /\ posts = <<>>
    /\ page_bar_n = 0
    /\ attempt = 1
    /\ idx = 1
    /\ deleted = 0
    /\ failed = 0
    /\ f = "none"
    /\ backup_fh = "none"
    /\ log_buf = <<>>
    /\ backup_buf = <<>>
    /\ requests = <<>>
    /\ served = <<>>
    /\ last_sent = NoneCursor
    /\ delete_calls = [r \in RKeys |-> 0]
    /\ calls = <<>>
    /\ removed = {}
    /\ disk0 = [log |-> log_disk, backup |-> backup_disk]
    /\ error = "none"
    /\ result = NoResult
    /\ summary = FALSE
    /\ exit_status = -1

Init ==
    /\ opts \in Options
    /\ env \in Envs
    /\ feed \in Feeds
    /\ \E old \in BOOLEAN :
        /\ log_disk = IF old THEN OldFile(OldLogLine) ELSE AbsentFile
        /\ backup_disk = IF old THEN OldFile(OldBackupEntry) ELSE AbsentFile
    /\ RunStart

\* --------------------------------------------------------------- helpers
\* Mutant: the file is opened for writing ("w"), which empties it
OpenTruncate(disk) == [exists |-> TRUE, lines |-> <<>>, torn |-> <<>>]

\* open(path, "a"): the file exists afterwards and keeps its lines
OpenAppend(disk) == [disk EXCEPT !.exists = TRUE]
\* Mutant: the buffered records land at the start of the file and replace
\* what it held
FlushOver(disk, buf) ==
    [exists |-> TRUE, lines |-> IF buf = <<>> THEN disk.lines ELSE buf,
     torn |-> IF buf = <<>> THEN disk.torn ELSE <<>>]

\* the buffer of a handle opened for appending reaches the file: its records
\* are added after the lines the file holds.  When the file ends in a fragment
\* the buffer starts with the rest of that record, which makes it whole.
Flush(disk, buf) ==
    [exists |-> TRUE, lines |-> disk.lines \o buf,
     torn |-> IF buf = <<>> THEN disk.torn ELSE <<>>]

\* fh.write(line) with the default buffering: the record joins the buffer
WriteLine(buf, line) == Append(buf, line)

\* the first k records of the buffer go to the file, the others stay
Sent(disk, buf, k) ==
    [disk |-> Flush(disk, SubSeq(buf, 1, k)), buf |-> SubSeq(buf, k + 1, Len(buf))]

\* the write of the next record of the buffer breaks off part-way: a fragment
\* of it is in the file, the record stays in the buffer
Torn(o) == [disk |-> [o.disk EXCEPT !.torn = <<o.buf[1]>>], buf |-> o.buf]

\* fh.write(line) returns.  What the file holds afterwards depends on the
\* sizes in bytes of the records and on the interpreter: the record fits the
\* buffer (8192 bytes) and nothing goes to the file; or it does not fit, and
\* what was buffered before goes to the file while the record stays buffered;
\* or the buffer goes to the file together with the record (which is also
\* what happens to a record as large as the buffer, written through at once);
\* or the file takes only a part of what is sent to it (a short write, as
\* under a file-size limit): some of the buffered records are in the file,
\* whole, and possibly a fragment of the next one, which may be the new
\* record written through in part; the rest is buffered
WriteOutcomes(disk, buf, line) ==
    LET all == WriteLine(buf, line)
    IN  {Sent(disk, all, k) : k \in 0..Len(all)}
            \cup {Torn(Sent(disk, all, k)) : k \in 0..Len(buf)}

\* a flush that fails: some of the buffered records have reached the file,
\* whole, and possibly a fragment of the next one; the others have not
FailedFlushes(disk, buf) ==
    {Sent(disk, buf, k) : k \in 0..Len(buf)}
        \cup {Torn(Sent(disk, buf, k)) : k \in 0..(Len(buf) - 1)}

\* the handle gives up the records it holds: they will not reach the file
Dropped(o) == [disk |-> o.disk, buf |-> <<>>]

\* fh.write(line) raises: the flush it started failed, with the record in the
\* buffer or not yet; or the buffer went to the file and the record, written
\* through, broke off part-way.  The records that did not reach the file
\* stay in the buffer or are dropped by the failed write.
FailedWrites(disk, buf, line) ==
    LET broken == FailedFlushes(disk, buf) \cup FailedFlushes(disk, WriteLine(buf, line))
                    \cup {[disk |-> [Flush(disk, buf) EXCEPT !.torn = <<line>>],
                           buf |-> <<>>]}
    IN  broken \cup {Dropped(w) : w \in broken}

\* fh.close(), and the finalizer of a handle left open: the buffer is flushed
\* to the file; when the flush fails (ok false) the records that did not
\* reach the file are lost to it and stay behind in buf
CloseFlush(disk, buf, ok) ==
    IF ok THEN {Sent(disk, buf, Len(buf))} ELSE FailedFlushes(disk, buf)

\* line 162: the log record of a matched post
LogLine(entry) == [time |-> entry.pt, text |-> CollapseNewlines(entry.post.text)]
\* lines 165-169: the backup record of a matched post
BackupEntry(entry) == [uri |-> entry.uri, datetime |-> entry.pt, post |-> entry.post]

\* line 127
NextCursor(page) == page.cursor
\* lines 129-130
LoopEnds(c) == Falsy(c)
\* line 128: tqdm.update() of a disabled bar (quiet) returns before counting
PageBarUpdate(n, quiet) == IF quiet THEN n ELSE n + 1
\* Mutant: the policy allows one attempt more
RetriesExhaustedLate(a) == a > MaxAttempts

\* lines 28-33: the retry policy gives up after the third failed attempt
RetriesExhausted(a) == a >= MaxAttempts
\* line 177
CloseBackup(fh) == IF fh # "none" THEN "closed" ELSE fh
\* leaving the with block of line 156, normally or by an exception
CloseLog(fh) == IF fh = "open" THEN "closed" ELSE fh
\* Mutant: the exit status is taken from the posts left undeleted
ExitStatusUndeleted(r) == IF r.deleted < r.matched THEN 1 ELSE 0

\* lines 256-257
ExitStatus(r) == IF r.failed > 0 THEN 1 ELSE 0
\* an exception leaving process_posts: the frame's backup_fh is not closed
Raise(cause) == error' = cause /\ pc' = "raised"

\* One call of the loop of lines 158-176: f.write ("log"), backup_fh.write
\* ("backup") or delete_record ("delete") for a matched post, and whether it
\* returned (ok) or raised
Call(op, entry, ok) == [op |-> op, uri |-> entry.uri, ok |-> ok]
Called(op, entry, ok) == calls' = Append(calls, Call(op, entry, ok))

\* ------------------------------------------------------------- the run
\* lines 59-84: login and set-up succeed
LoginOk ==
    /\ pc = "login"
    /\ pc' = "fetch"
    /\ UNCHANGED <<inputs, fetch_state, attempt, loop_state, files, remote, error,
                   result, cli_state>>

\* line 60: client.login raises
LoginFail ==
    /\ pc = "login"
    /\ Raise("login")
    /\ UNCHANGED <<inputs, fetch_state, attempt, loop_state, files, remote, result,
                   cli_state>>

\* lines 88-106: the fetch attempt succeeds and an item of the page raises
\* AttributeError at line 106, which leaves process_posts
FetchItemRaises ==
    /\ pc = "fetch"
    /\ Len(requests) <= MaxPages
    /\ LET page == GetAuthorFeed(feed, cursor)
       IN  /\ PageRaises(opts.filter, env, page.feed)
           /\ posts' = posts \o FilterItems(opts.filter, env,
                                   ItemsBeforeRaise(opts.filter, env, page.feed))
    /\ requests' = Append(requests, cursor)
    /\ served' = Append(served, PageIndex(cursor))
    /\ last_sent' = cursor
    /\ attempt' = 1
    /\ Raise("filter")
    /\ UNCHANGED <<inputs, cursor, page_bar_n, loop_state, files, remote, result,
                   cli_state>>

\* lines 87-130: one pass of the paging loop whose fetch attempt succeeds
FetchOk ==
    /\ pc = "fetch"
    /\ Len(requests) <= MaxPages
    /\ LET page == GetAuthorFeed(feed, cursor)
       IN  /\ ~PageRaises(opts.filter, env, page.feed)
           /\ posts' = posts \o FilterItems(opts.filter, env, page.feed)
           /\ cursor' = NextCursor(page)
           /\ pc' = IF LoopEnds(NextCursor(page)) THEN "count" ELSE "fetch"
    /\ requests' = Append(requests, cursor)
    /\ served' = Append(served, PageIndex(cursor))
    /\ last_sent' = cursor
    /\ page_bar_n' = PageBarUpdate(page_bar_n, opts.quiet)
    /\ attempt' = 1
    /\ UNCHANGED <<inputs, loop_state, files, remote, error, result, cli_state>>

\* Mutant: an exhausted page fetch is caught like a failed delete and ends paging
FetchFailSwallowed ==
    /\ pc = "fetch"
    /\ last_sent' = cursor
    /\ IF RetriesExhausted(attempt)
       THEN pc' = "count" /\ UNCHANGED <<attempt, error>>
       ELSE attempt' = attempt + 1 /\ UNCHANGED <<pc, error>>
    /\ UNCHANGED <<inputs, cursor, posts, page_bar_n, requests, served, loop_state,
                   files, remote, result, cli_state>>

\* lines 36-42 under lines 28-33: a fetch attempt raises; the policy retries
\* or, after the last attempt, re-raises out of process_posts
FetchFail ==
    /\ pc = "fetch"
    /\ last_sent' = cursor
    /\ IF RetriesExhausted(attempt)
       THEN Raise("fetch") /\ UNCHANGED attempt
       ELSE attempt' = attempt + 1 /\ UNCHANGED <<pc, error>>
    /\ UNCHANGED <<inputs, cursor, posts, page_bar_n, requests, served, loop_state,
                   files, remote, result, cli_state>>

\* Mutant: the log file is opened before the matched posts are counted
NoPostsAfterOpen ==
    /\ pc = "count"
    /\ Len(posts) = 0
    /\ log_disk' = OpenAppend(log_disk)
    /\ f' = "closed"
    /\ result' = Result(page_bar_n * PageSize, 0, 0, 0)
    /\ pc' = "returned"
    /\ UNCHANGED <<inputs, fetch_state, attempt, loop_state, backup_fh, log_buf,
                   backup_file, remote, error, cli_state>>

\* lines 132-135
NoPosts ==
    /\ pc = "count"
    /\ Len(posts) = 0
    /\ result' = Result(page_bar_n * PageSize, 0, 0, 0)
    /\ pc' = "returned"
    /\ UNCHANGED <<inputs, fetch_state, attempt, loop_state, files, remote, error,
                   cli_state>>

\* Mutant: the backup file is opened in preview mode too
OpenBackupAlways ==
    /\ pc = "count"
    /\ Len(posts) # 0
    /\ deleted' = 0
    /\ failed' = 0
    /\ backup_fh' = "open"
    /\ backup_disk' = OpenAppend(backup_disk)
    /\ pc' = "openlog"
    /\ UNCHANGED <<inputs, fetch_state, attempt, idx, f, log_file, backup_buf, remote,
                   error, result, cli_state>>

\* lines 137-149: the backup file is opened unless previewing
OpenBackup ==
    /\ pc = "count"
    /\ Len(posts) # 0
    /\ deleted' = 0
    /\ failed' = 0
    /\ IF opts.preview_only
       THEN UNCHANGED <<backup_fh, backup_disk>>
       ELSE backup_fh' = "open" /\ backup_disk' = OpenAppend(backup_disk)
    /\ pc' = "openlog"
    /\ UNCHANGED <<inputs, fetch_state, attempt, idx, f, log_file, backup_buf, remote,
                   error, result, cli_state>>

\* line 149: open(backup_file, "a") raises
OpenBackupFail ==
    /\ pc = "count"
    /\ Len(posts) # 0
    /\ ~opts.preview_only
    /\ Raise("open_backup")
    /\ UNCHANGED <<inputs, fetch_state, attempt, loop_state, files, remote, result,
                   cli_state>>

\* line 156
OpenLog ==
    /\ pc = "openlog"
    /\ f' = "open"
    /\ log_disk' = OpenAppend(log_disk)
    /\ idx' = 1
    /\ pc' = "loop"
    /\ UNCHANGED <<inputs, fetch_state, attempt, deleted, failed, backup_fh, log_buf,
                   backup_file, remote, error, result, cli_state>>

\* line 156: open(log_file, "a") raises
OpenLogFail ==
    /\ pc = "openlog"
    /\ Raise("open_log")
    /\ UNCHANGED <<inputs, fetch_state, attempt, loop_state, files, remote, result,
                   cli_state>>

\* lines 158-162, and line 176 in preview
WriteLog ==
    /\ pc = "loop"
    /\ idx <= Len(posts)
    /\ \E w \in WriteOutcomes(log_disk, log_buf, LogLine(posts[idx])) :
        log_disk' = w.disk /\ log_buf' = w.buf
    /\ IF opts.preview_only
       THEN idx' = idx + 1 /\ UNCHANGED pc
       ELSE pc' = "backup" /\ UNCHANGED idx
    /\ Called("log", posts[idx], TRUE)
    /\ UNCHANGED <<inputs, fetch_state, attempt, deleted, failed, f, backup_fh,
                   backup_file, delete_calls, removed, error, result, cli_state>>

\* line 162: f.write raises; the with block closes f on the way out, which
\* flushes what the failed write left in the buffer, if anything.  When that
\* flush fails too, the exception of the close is the one that leaves
\* process_posts.
WriteLogFail ==
    /\ pc = "loop"
    /\ idx <= Len(posts)
    /\ f' = CloseLog(f)
    /\ \E w \in FailedWrites(log_disk, log_buf, LogLine(posts[idx])), ok \in BOOLEAN :
        /\ \E c \in CloseFlush(w.disk, w.buf, ok) :
                log_disk' = c.disk /\ log_buf' = c.buf
        /\ Raise(IF ok THEN "write_log" ELSE "close_log")
    /\ Called("log", posts[idx], FALSE)
    /\ UNCHANGED <<inputs, fetch_state, attempt, loop_state, backup_fh, backup_file,
                   delete_calls, removed, result, cli_state>>

\* lines 163-169
WriteBackup ==
    /\ pc = "backup"
    /\ \E w \in WriteOutcomes(backup_disk, backup_buf, BackupEntry(posts[idx])) :
        backup_disk' = w.disk /\ backup_buf' = w.buf
    /\ attempt' = 1
    /\ pc' = "delete"
    /\ Called("backup", posts[idx], TRUE)
    /\ UNCHANGED <<inputs, fetch_state, loop_state, f, backup_fh, log_file,
                   delete_calls, removed, error, result, cli_state>>

\* line 165: backup_fh.write raises; the with block closes f on the way out,
\* which flushes the log records, and when that flush fails the exception of
\* the close is the one that leaves process_posts; backup_fh is left open,
\* with what the failed write left in its buffer
WriteBackupFail ==
    /\ pc = "backup"
    /\ f' = CloseLog(f)
    /\ \E ok \in BOOLEAN :
        /\ \E c \in CloseFlush(log_disk, log_buf, ok) :
                log_disk' = c.disk /\ log_buf' = c.buf
        /\ Raise(IF ok THEN "write_backup" ELSE "close_log")
    /\ \E w \in FailedWrites(backup_disk, backup_buf, BackupEntry(posts[idx])) :
        backup_disk' = w.disk /\ backup_buf' = w.buf
    /\ Called("backup", posts[idx], FALSE)
    /\ UNCHANGED <<inputs, fetch_state, attempt, loop_state, backup_fh,
                   delete_calls, removed, result, cli_state>>

\* lines 170-172 and 44-51: a delete attempt succeeds
DeleteOk ==
    /\ pc = "delete"
    /\ LET rkey == RKey(posts[idx].uri)
       IN  /\ delete_calls' = [delete_calls EXCEPT ![rkey] = @ + 1]
           /\ removed' = removed \cup {rkey}
    /\ Called("delete", posts[idx], TRUE)
    /\ deleted' = deleted + 1
    /\ idx' = idx + 1
    /\ attempt' = 1
    /\ pc' = "loop"
    /\ UNCHANGED <<inputs, fetch_state, failed, files, error, result, cli_state>>

\* Mutant: an exhausted delete is not counted as a failure
DeleteFailUncounted ==
    /\ pc = "delete"
    /\ delete_calls' = [delete_calls EXCEPT ![RKey(posts[idx].uri)] = @ + 1]
    /\ Called("delete", posts[idx], FALSE)
    /\ IF RetriesExhausted(attempt)
       THEN /\ idx' = idx + 1
            /\ attempt' = 1
            /\ pc' = "loop"
       ELSE /\ attempt' = attempt + 1
            /\ UNCHANGED <<idx, pc>>
    /\ UNCHANGED <<inputs, fetch_state, deleted, failed, files, removed, error, result,
                   cli_state>>

\* lines 44-51 under 28-33, and 173-176: a delete attempt raises; the policy
\* retries or, after the last attempt, the run counts the failure and goes on
DeleteFail ==
    /\ pc = "delete"
    /\ delete_calls' = [delete_calls EXCEPT ![RKey(posts[idx].uri)] = @ + 1]
    /\ Called("delete", posts[idx], FALSE)
    /\ IF RetriesExhausted(attempt)
       THEN /\ failed' = failed + 1
            /\ idx' = idx + 1
            /\ attempt' = 1
            /\ pc' = "loop"
       ELSE /\ attempt' = attempt + 1
            /\ UNCHANGED <<failed, idx, pc>>
    /\ UNCHANGED <<inputs, fetch_state, deleted, files, removed, error, result,
                   cli_state>>

\* lines 176-185: the loop is over; leaving the with block closes f and line
\* 178 closes the backup file, each close flushing its buffer, and the result
\* is returned
Finish ==
    /\ pc = "loop"
    /\ idx > Len(posts)
    /\ f' = CloseLog(f)
    /\ \E c \in CloseFlush(log_disk, log_buf, TRUE) :
           log_disk' = c.disk /\ log_buf' = c.buf
    /\ backup_fh' = CloseBackup(backup_fh)
    /\ IF backup_fh # "none"
       THEN \E c \in CloseFlush(backup_disk, backup_buf, TRUE) :
                backup_disk' = c.disk /\ backup_buf' = c.buf
       ELSE UNCHANGED backup_file
    /\ result' = Result(page_bar_n * PageSize, Len(posts), deleted, failed)
    /\ pc' = "returned"
    /\ UNCHANGED <<inputs, fetch_state, attempt, loop_state, remote, error, cli_state>>

\* line 156, leaving the with block after the loop: the close of f raises
\* (its flush fails); line 178 is not reached, backup_fh is left as it is
CloseLogFail ==
    /\ pc = "loop"
    /\ idx > Len(posts)
    /\ f' = CloseLog(f)
    /\ \E c \in CloseFlush(log_disk, log_buf, FALSE) :
           log_disk' = c.disk /\ log_buf' = c.buf
    /\ Raise("close_log")
    /\ UNCHANGED <<inputs, fetch_state, attempt, loop_state, backup_fh, backup_file,
                   remote, result, cli_state>>

\* line 178: f was closed and flushed; backup_fh.close() raises (its flush
\* fails), the handle is closed and no result is returned
CloseBackupFail ==
    /\ pc = "loop"
    /\ idx > Len(posts)
    /\ backup_fh # "none"
    /\ f' = CloseLog(f)
    /\ \E c \in CloseFlush(log_disk, log_buf, TRUE) :
           log_disk' = c.disk /\ log_buf' = c.buf
    /\ backup_fh' = CloseBackup(backup_fh)
    /\ \E c \in CloseFlush(backup_disk, backup_buf, FALSE) :
           backup_disk' = c.disk /\ backup_buf' = c.buf
    /\ Raise("close_backup")
    /\ UNCHANGED <<inputs, fetch_state, attempt, loop_state, remote, result, cli_state>>

\* lines 246-257: cli prints the summary and exits
CliSummary ==
    /\ pc = "returned"
    /\ summary' = TRUE
    /\ exit_status' = ExitStatus(result)
    /\ pc' = "exited"
    /\ UNCHANGED <<inputs, fetch_state, attempt, loop_state, files, remote, error,
                   result>>

\* line 236: the exception of process_posts passes through cli uncaught; the
\* interpreter prints the traceback and exits with status 1.  A backup handle
\* the run left open is finalized on the way out, which flushes its buffer
\* (the flush can fail, silently).
CliUncaught ==
    /\ pc = "raised"
    /\ exit_status' = 1
    /\ pc' = "exited"
    /\ IF backup_fh = "open"
       THEN \E ok \in BOOLEAN :
                \E c \in CloseFlush(backup_disk, backup_buf, ok) :
                    backup_disk' = c.disk /\ backup_buf' = c.buf
       ELSE UNCHANGED backup_file
    /\ UNCHANGED <<inputs, fetch_state, attempt, loop_state, f, backup_fh, log_file,
                   remote, error, result, summary>>

Next ==
    \/ LoginOk
    \/ LoginFail
    \/ FetchOk
    \/ FetchItemRaises
    \/ FetchFail
    \/ NoPosts
    \/ OpenBackup
    \/ OpenBackupFail
    \/ OpenLog
    \/ OpenLogFail
    \/ WriteLog
    \/ WriteLogFail
    \/ WriteBackup
    \/ WriteBackupFail
    \/ DeleteOk
    \/ DeleteFail
    \/ Finish
    \/ CloseLogFail
    \/ CloseBackupFail
    \/ CliSummary
    \/ CliUncaught

Spec == Init /\ [][Next]_vars

\* The interpreter runs the single thread until the process exits.
FairSpec == Init /\ [][Next]_vars /\ WF_vars(Next)

\* ------------------------------------------------- the filter on its own
\* Posts and options for the filter of lines 89-126 taken alone: timestamps
\* on both sides of the cutoff and of the range bounds and exactly on them,
\* with and without an offset; replies, embeds of each shape; texts the
\* patterns match as a substring, as a regular expression, or not at all.
FilterClocks == {1000, 1002, 1100, 1280, 1282}
\* Timestamps astimezone raises for, in some zone or in every zone
EdgeStamps ==
    {Naive(MinClock + 1), Aware(MinClock + 1, 2), Naive(MaxClock - 1), Naive(MaxClock - 2)}
FilterStamps ==
    {Aware(c, 0) : c \in FilterClocks} \cup {Aware(c, 2) : c \in FilterClocks}
        \cup {Naive(c) : c \in FilterClocks} \cup EdgeStamps
FilterEmbeds == {NoEmbed, DictEmbed(RepostView), DictEmbed(ImagesView),
                 AttrEmbed(RepostView, RepostView), AttrEmbed(RepostView, ImagesView),
                 AttrEmbed(ImagesView, RepostView), AttrEmbed(RepostView, NoAttr)}
FilterTexts == {<<"F", "o", "o", "b">>, <<"f", "\n", "o">>, <<"f", ".", "o">>}
FilterPosts ==
    {[uri |-> Uri("a1"), indexed_at |-> ts, reply |-> r, embed |-> em, text |-> tx] :
        ts \in FilterStamps, r \in BOOLEAN, em \in FilterEmbeds, tx \in FilterTexts}
FilterPatterns == {<<>>, <<<<"f", "o">>>>, <<<<"f", ".", "o">>, <<"B">>>>}
FilterOptions ==
    {[preview_only |-> TRUE, quiet |-> FALSE,
      filter |-> [days_old |-> 30, after |-> a, before |-> b, match_patterns |-> m,
                  use_regex |-> x, include_replies |-> ir, include_reposts |-> io]] :
        a \in {NoneTs, Aware(1000, 0)},
        b \in {NoneTs, Aware(1000, 0), Naive(1102)},
        m \in FilterPatterns, x \in BOOLEAN, ir \in BOOLEAN, io \in BOOLEAN}

\* A run over a feed of one page holding one post, up to the end of paging
FilterInit ==
    /\ opts \in FilterOptions
    /\ env \in FilterEnvs
    /\ feed \in {<<[feed |-> <<p>>, cursor |-> NoneCursor]>> : p \in FilterPosts}
    /\ log_disk = AbsentFile
    /\ backup_disk = AbsentFile
    /\ RunStart

FilterNext ==
    \/ LoginOk
    \/ FetchOk
    \/ FetchItemRaises

FilterSpec == FilterInit /\ [][FilterNext]_vars

\* ====================================================================
\* Properties
\* ====================================================================
\* What this run appended to a file: its lines after those it held before
Appended(disk, before) == SubSeq(disk.lines, Len(before.lines) + 1, Len(disk.lines))
NewLog == Appended(log_disk, disk0.log)
NewBackup == Appended(backup_disk, disk0.backup)
KeepsOldLines(disk, before) ==
    /\ Len(disk.lines) >= Len(before.lines)
    /\ SubSeq(disk.lines, 1, Len(before.lines)) = before.lines

HasBackupOf(uri) == \E i \in 1..Len(NewBackup) : NewBackup[i].uri = uri
UriOfRKey(r) == Uri(r)

\* A step that is the last allowed attempt of a delete, and fails
ExhaustedDeleteStep ==
    /\ pc = "delete"
    /\ attempt = MaxAttempts
    /\ delete_calls' # delete_calls
    /\ removed' = removed

\* The order of the calls: backup_fh.write has taken the entry of every post
\* a delete attempt has been or is about to be issued for
BackupCalled(uri) ==
    \E k \in 1..Len(calls) : calls[k].op = "backup" /\ calls[k].uri = uri /\ calls[k].ok
WriteCallAhead ==
    /\ \A r \in RKeys : delete_calls[r] > 0 => BackupCalled(UriOfRKey(r))
    /\ pc = "delete" => BackupCalled(posts[idx].uri)

\* C1 (the claim as stated): whenever a delete attempt for a post is about
\* to be issued or has been issued, the backup file holds the entry this run
\* wrote for that post.
C1_WriteAhead ==
    /\ \A r \in RKeys : delete_calls[r] > 0 => HasBackupOf(UriOfRKey(r))
    /\ pc = "delete" => HasBackupOf(posts[idx].uri) /\ backup_disk.exists

\* C2 (preview is side-effect free): in a preview run the backup file is
\* never opened, created or written, delete_record is never called, nothing
\* is removed from the service, and deleted = failed = 0 throughout and in
\* the returned result.
C2_PreviewNoSideEffects ==
    opts.preview_only =>
        /\ backup_fh = "none"
        /\ backup_disk = disk0.backup
        /\ backup_buf = <<>>
        /\ \A r \in RKeys : delete_calls[r] = 0
        /\ removed = {}
        /\ deleted = 0 /\ failed = 0
        /\ result.deleted = 0 /\ result.failed = 0

\* C2 witness: a preview run over matched posts has returned its result
C2_Witness ==
    /\ opts.preview_only
    /\ result.returned
    /\ result.matched >= 2
    /\ Len(NewLog) = result.matched

\* C3 (counter accounting): a result returned by a non-preview run has
\* deleted + failed = matched, the case matched = 0 included.
C3_CounterAccounting ==
    (result.returned /\ ~opts.preview_only) =>
        /\ result.deleted + result.failed = result.matched
        /\ result.matched = Len(posts)

\* C3 witness: a non-preview result with both a deleted and a failed post
C3_Witness ==
    /\ result.returned
    /\ ~opts.preview_only
    /\ result.deleted >= 1
    /\ result.failed >= 1

\* The calls made so far for the matched post at place i
CallsFor(op, i) == {k \in 1..Len(calls) : calls[k].op = op /\ calls[k].uri = posts[i].uri}

\* The run has returned a result and every matched post has its log record
\* and its backup entry in the files and was given a delete attempt
C4_EveryPostHandled ==
    /\ result.returned
    /\ Len(NewLog) = Len(posts)
    /\ Len(NewBackup) = Len(posts)
    /\ \A i \in 1..Len(posts) :
        /\ NewLog[i] = LogLine(posts[i])
        /\ NewBackup[i] = BackupEntry(posts[i])
        /\ CallsFor("delete", i) # {}

\* C4 (the claim as stated): the step in which a post's last delete attempt
\* fails raises nothing, adds exactly 1 to failed, leaves deleted alone and
\* moves the loop to the next post; and once a delete has failed for good,
\* every matched post, the later ones included, is still logged, backed up
\* and given its delete attempt, and the run returns a result.
C4_DeleteFailureIsolated ==
    /\ [][ExhaustedDeleteStep =>
            /\ failed' = failed + 1
            /\ deleted' = deleted
            /\ error' = "none"
            /\ pc' = "loop"
            /\ idx' = idx + 1]_vars
    /\ [](failed > 0 => <>C4_EveryPostHandled)

\* C5 (the claim as stated): once process_posts has ended, by a return or by
\* an exception, the backup file handle is not open.
C5_BackupClosedOnEveryExit ==
    pc \in {"returned", "raised", "exited"} => backup_fh # "open"

\* C6 (the claim as stated): once paging is over, nothing that fails while a
\* matched post is handled (its log record, its backup entry, its delete)
\* ends the run with an exception.
C6_OnlyLoginAndFetchAbort ==
    error \notin {"write_log", "write_backup", "delete"}

\* C7 (an exhausted page fetch is fatal): the last allowed attempt of a page
\* fetch, failing, raises out of process_posts; after that no page is
\* fetched, no result is returned, cli prints no summary and the exit status
\* is not 0.
C7_FetchFailureFatal ==
    /\ [][(pc = "fetch" /\ attempt = MaxAttempts /\ requests' = requests) =>
            pc' = "raised" /\ error' = "fetch"]_vars
    /\ [][error = "fetch" => requests' = requests /\ last_sent' = last_sent]_vars
    /\ [](error = "fetch" =>
            /\ ~result.returned
            /\ ~summary
            /\ exit_status # 0
            /\ pc \in {"raised", "exited"})

\* C7 witness: the fetch of a later page failed three times and the process
\* has exited
C7_Witness ==
    /\ error = "fetch"
    /\ pc = "exited"
    /\ Len(requests) >= 1
    /\ exit_status = 1

PagingOver == pc \notin {"login", "fetch"} /\ error \notin {"login", "fetch", "filter"}
Returned(i) == feed[served[i]].cursor

\* The requests of the paging loop follow the cursors of the responses
C8_ChainInv ==
    /\ Len(served) = Len(requests)
    /\ \A i \in 1..Len(requests) :
        /\ served[i] = i
        /\ requests[i] = IF i = 1 THEN NoneCursor ELSE Returned(i - 1)
        /\ i < Len(requests) => ~Falsy(Returned(i))
    /\ last_sent \in
        (IF requests = <<>> THEN {NoneCursor}
         ELSE {requests[Len(requests)], Returned(Len(requests))})
    /\ (pc = "fetch" /\ requests # <<>>) => ~Falsy(Returned(Len(requests)))
    /\ PagingOver =>
        /\ Len(requests) = Len(feed)
        /\ Falsy(Returned(Len(requests)))

\* All N pages of the feed were consumed, each once and in order
PagesConsumed ==
    /\ Len(requests) = Len(feed)
    /\ served = [i \in 1..Len(feed) |-> i]

\* C8 (the claim as stated): the first fetch passes no cursor, every later
\* fetch (retries included) passes the cursor of the latest successful
\* response, pages are served once each in order and paging goes on exactly
\* while the responses carry a cursor; and a run that has logged in and whose
\* page fetches do not exhaust their retries consumes exactly the N pages of
\* the feed and eventually returns a result.
C8_PagingTerminates ==
    /\ []C8_ChainInv
    /\ [](pc = "fetch" => <>(error = "fetch" \/ (result.returned /\ PagesConsumed)))

\* C9 (over-backup): when a non-preview run returns, what it appended to the
\* backup file is one entry per matched post, in processing order, whether
\* the delete succeeded or not, after the lines the file held before; the
\* number of entries is matched = deleted + failed.
C9_OverBackup ==
    (result.returned /\ ~opts.preview_only) =>
        /\ KeepsOldLines(backup_disk, disk0.backup)
        /\ Len(NewBackup) = result.matched
        /\ Len(NewBackup) = result.deleted + result.failed
        /\ \A i \in 1..Len(posts) :
            /\ NewBackup[i].uri = posts[i].uri
            /\ NewBackup[i].post = posts[i].post
            /\ NewBackup[i].datetime = posts[i].pt

\* C9 witness: a returned run whose backup holds more entries than deletes
\* that succeeded, after a line that was there before
C9_Witness ==
    /\ result.returned
    /\ ~opts.preview_only
    /\ result.failed >= 1
    /\ result.deleted >= 1
    /\ Len(NewBackup) > Cardinality(removed)
    /\ disk0.backup.lines # <<>>

\* C10 (exit status): after process_posts returned a result, the process
\* exits with status 1 exactly when failed > 0 and with status 0 otherwise; a
\* preview run that returned exits with 0.
C10_ExitStatus ==
    (pc = "exited" /\ result.returned) =>
        /\ summary
        /\ exit_status = 1 <=> result.failed > 0
        /\ exit_status = 0 <=> result.failed = 0
        /\ opts.preview_only => exit_status = 0

\* C10 witness: a run with a failed delete has exited with status 1
C10_Witness ==
    /\ pc = "exited"
    /\ result.returned
    /\ result.failed > 0
    /\ exit_status = 1

\* C11 (the claim as stated): every returned result has scanned = 50 x the
\* number of pages fetched successfully in the run, with quiet set or not.
C11_ScannedCountsPages ==
    result.returned => result.scanned = PageSize * Len(requests)

\* The posts the service holds, in service order, and the matched ones
FeedPosts == Flatten([i \in 1..Len(feed) |-> feed[i].feed])
IsMatched(post) == \E i \in 1..Len(posts) : posts[i].uri = post.uri /\ posts[i].post = post

\* The instant a post was indexed at: a timestamp with an offset names it; one
\* without an offset is in UTC already.  The range bounds are the instants
\* the run computes from its arguments.
IndexedAt(post) ==
    LET ts == post.indexed_at
    IN  IF ts.tag = "aware" THEN ts.clock - ts.off ELSE ts.clock
CutoffInstant == env.now - opts.filter.days_old * HoursPerDay
AfterInstant == ParseBound(opts.filter.after, env.local_off)
BeforeInstant == ParseBound(opts.filter.before, env.local_off)

PatternMatches(p, text) ==
    IF opts.filter.use_regex THEN RegexSearchCI(p, text) ELSE SubstringCI(p, text)
OldEnough(post) == IndexedAt(post) < CutoffInstant
TypeAllowed(post) ==
    /\ ~(post.reply /\ ~opts.filter.include_replies)
    /\ ~(IsRepost(post) /\ ~opts.filter.include_reposts)
NotBeforeAfter(post) == AfterInstant.set => IndexedAt(post) >= AfterInstant.at
NotAfterBefore(post) == BeforeInstant.set => IndexedAt(post) <= BeforeInstant.at
PatternAllowed(post) ==
    \/ opts.filter.match_patterns = <<>>
    \/ \E j \in 1..Len(opts.filter.match_patterns) :
        PatternMatches(opts.filter.match_patterns[j], post.text)

\* C12 (the claim as stated): once the pages are fetched, a fetched post is
\* in the matched list exactly when its indexedAt is before the cutoff, it is
\* not an excluded reply or repost, it lies within the date bounds that are
\* set, and the pattern list is empty or one pattern matches its text; a
\* post with indexedAt at or after the cutoff is never matched; a reply older
\* than the cutoff that passes the other steps is matched exactly when
\* include_replies is set.
C12_FilterPredicate ==
    PagingOver =>
        \A i \in 1..Len(FeedPosts) :
            LET post == FeedPosts[i]
            IN  /\ IsMatched(post) <=>
                    /\ OldEnough(post)
                    /\ TypeAllowed(post)
                    /\ NotBeforeAfter(post)
                    /\ NotAfterBefore(post)
                    /\ PatternAllowed(post)
                /\ IndexedAt(post) >= CutoffInstant => ~IsMatched(post)
                /\ (/\ post.reply
                    /\ OldEnough(post)
                    /\ ~(IsRepost(post) /\ ~opts.filter.include_reposts)
                    /\ NotBeforeAfter(post) /\ NotAfterBefore(post)
                    /\ PatternAllowed(post))
                   => (IsMatched(post) <=> opts.filter.include_replies)

\* C13 (the claim as stated): a matched post has afterInstant <= indexedAt
\* <= beforeInstant for the bounds that are set; a post whose indexedAt is
\* exactly the after bound, or exactly the before bound, and that passes the
\* age, type and pattern steps and the other bound, is matched.
C13_RangeInclusive ==
    PagingOver =>
        \A i \in 1..Len(FeedPosts) :
            LET post == FeedPosts[i]
                others == OldEnough(post) /\ TypeAllowed(post) /\ PatternAllowed(post)
            IN  /\ IsMatched(post) =>
                    /\ AfterInstant.set => AfterInstant.at <= IndexedAt(post)
                    /\ BeforeInstant.set => IndexedAt(post) <= BeforeInstant.at
                /\ (/\ others
                    /\ AfterInstant.set /\ IndexedAt(post) = AfterInstant.at
                    /\ NotAfterBefore(post)) => IsMatched(post)
                /\ (/\ others
                    /\ BeforeInstant.set /\ IndexedAt(post) = BeforeInstant.at
                    /\ NotBeforeAfter(post)) => IsMatched(post)

\* C17 (the claim as stated): the normalised timestamp of a post is its
\* instant in UTC when it carries an offset, and its clock reading unchanged
\* when it carries none, whatever the time zone of the machine.
C17_NaiveTakenAsUTC ==
    \A i \in 1..Len(posts) :
        LET ts == posts[i].post.indexed_at
        IN  posts[i].pt = IF ts.tag = "aware" THEN ts.clock - ts.off ELSE ts.clock

\* The delete attempts issued so far, over all posts
RECURSIVE SumCalls(_)
SumCalls(S) ==
    IF S = {} THEN 0
    ELSE LET r == CHOOSE x \in S : TRUE IN delete_calls[r] + SumCalls(S \ {r})
FailedPosts == {i \in 1..(idx - 1) : RKey(posts[i].uri) \notin removed}

\* What holds of the attempts in every state of a run that deletes
C14_AttemptsInv ==
    /\ attempt \in 1..MaxAttempts
    /\ \A r \in RKeys : delete_calls[r] <= MaxAttempts
    /\ SumCalls(RKeys) <= MaxAttempts * Len(posts)
    /\ pc = "delete" =>
        /\ delete_calls[RKey(posts[idx].uri)] = attempt - 1
        /\ RKey(posts[idx].uri) \notin removed
    /\ (~opts.preview_only /\ pc \notin {"login", "fetch", "count", "openlog"}) =>
        /\ \A i \in 1..(idx - 1) :
            LET r == RKey(posts[i].uri)
            IN  /\ delete_calls[r] >= 1
                /\ r \notin removed => delete_calls[r] = MaxAttempts
        /\ failed = Cardinality(FailedPosts)
        /\ deleted = Cardinality(removed)

\* C14 (bounded retry): a page fetch or a delete is tried at most 3 times and
\* at least once; attempts stop at the first success (a post the service has
\* deleted is never attempted again); a fetch is given up, and a delete
\* counted as failed, only by the third failed attempt in a row; a run issues
\* at most 3 delete attempts per matched post.
C14_BoundedRetry ==
    /\ []C14_AttemptsInv
    /\ [][\A r \in RKeys : delete_calls'[r] # delete_calls[r] =>
            /\ r \notin removed
            /\ delete_calls[r] < MaxAttempts
            /\ delete_calls'[r] = delete_calls[r] + 1]_vars
    /\ [][failed' # failed => (failed' = failed + 1 /\ pc = "delete" /\ attempt = MaxAttempts)]_vars
    /\ [][(error' = "fetch" /\ error # "fetch") =>
            (pc = "fetch" /\ attempt = MaxAttempts)]_vars
    /\ [][(pc = "fetch" /\ requests' # requests) => attempt' = 1]_vars

\* C14 witness: one post was deleted at its second attempt, another failed
\* three times, and the run returned
C14_Witness ==
    /\ result.returned
    /\ \E r \in removed : delete_calls[r] = 2
    /\ \E r \in RKeys : r \notin removed /\ delete_calls[r] = MaxAttempts
    /\ result.failed = 1

\* Where the service returned a post: its place in page order, then in the page
PlaceOf(fp, post) == CHOOSE k \in 1..Len(fp) : fp[k] = post
\* The posts whose delete has ended, in success or in the third failure
Concluded == deleted + failed

\* The place in posts of the matched post a call was made for
PostOf(call) == CHOOSE i \in 1..Len(posts) : posts[i].uri = call.uri
\* The delete attempts for the post of calls[k] among the first k calls
AttemptsUpTo(k) ==
    Cardinality({j \in 1..k : calls[j].op = "delete" /\ calls[j].uri = calls[k].uri})
\* calls[k] ended the handling of its post: in a preview run the log record
\* was written; otherwise the delete succeeded or failed for the last time
Concludes(k) ==
    IF opts.preview_only
    THEN calls[k].op = "log" /\ calls[k].ok
    ELSE calls[k].op = "delete" /\ (calls[k].ok \/ AttemptsUpTo(k) = MaxAttempts)

\* C15 (sequential processing in service order): the matched posts are kept
\* in the order the service returned them (page by page, then by place in
\* the page), and the calls the run makes follow that order one post at a
\* time: the first call writes the log record of the first matched post; a
\* log record is written for the post next to the one of the call before,
\* and only when that call ended the handling of its post; the backup entry
\* of a post is written right after its log record; a delete attempt for a
\* post comes right after its backup entry or after a failed attempt that
\* was not the last; and nothing follows a call that raised out of the loop.
C15_SequentialInOrder ==
    /\ LET fp == FeedPosts
           place == [i \in 1..Len(posts) |-> PlaceOf(fp, posts[i].post)]
       IN  \A i, j \in 1..Len(posts) : i < j => place[i] < place[j]
    /\ \A k \in 1..Len(calls) : \E i \in 1..Len(posts) : posts[i].uri = calls[k].uri
    /\ LET at == [k \in 1..Len(calls) |-> PostOf(calls[k])]
       IN  \A k \in 1..Len(calls) :
            /\ k = 1 => calls[k].op = "log" /\ at[k] = 1
            /\ k > 1 =>
                LET c == calls[k]
                    p == calls[k - 1]
                IN  /\ c.op = "log" => Concludes(k - 1) /\ at[k] = at[k - 1] + 1
                    /\ c.op = "backup" =>
                        /\ ~opts.preview_only
                        /\ p.op = "log" /\ p.ok /\ at[k] = at[k - 1]
                    /\ c.op = "delete" =>
                        /\ ~opts.preview_only
                        /\ at[k] = at[k - 1]
                        /\ \/ p.op = "backup" /\ p.ok
                           \/ p.op = "delete" /\ ~Concludes(k - 1)
    /\ (calls # <<>> /\ pc \in {"loop", "backup", "delete"}) =>
        LET last == calls[Len(calls)]
        IN  /\ pc = "loop" <=> Concludes(Len(calls))
            /\ pc = "backup" <=> last.op = "log"  /\ ~opts.preview_only
            /\ idx = PostOf(last) + (IF pc = "loop" THEN 1 ELSE 0)

\* C15 witness: three posts matched over two pages were each logged, backed
\* up and given their delete, the first one failing for good and the second
\* one deleted at its second attempt, and the run returned
C15_Witness ==
    /\ result.returned
    /\ ~opts.preview_only
    /\ Len(feed) = 2
    /\ Len(posts) = 3
    /\ Len(calls) = 3 + 3 + MaxAttempts + 2 + 1
    /\ result.failed = 1
    /\ RKey(posts[1].uri) \notin removed
    /\ delete_calls[RKey(posts[2].uri)] = 2

IsPrefix(s, t) == Len(s) <= Len(t) /\ SubSeq(t, 1, Len(s)) = s

\* C16 (append-only files): in every state of a run, one that ended part-way
\* included, the log file and the backup file on disk still begin with the
\* lines they held before the run and a file that existed still exists; a
\* step changes the lines of either file only by adding lines at its end,
\* taken in order from the records the run wrote; a fragment a broken write
\* left at the end of a file is cut from the record that comes next.
C16_AppendOnly ==
    /\ [](/\ KeepsOldLines(log_disk, disk0.log)
          /\ KeepsOldLines(backup_disk, disk0.backup)
          /\ disk0.log.exists => log_disk.exists
          /\ disk0.backup.exists => backup_disk.exists
          /\ \A i \in 1..Len(NewLog) : NewLog[i] = LogLine(posts[i])
          /\ \A i \in 1..Len(NewBackup) : NewBackup[i] = BackupEntry(posts[i])
          /\ log_disk.torn # <<>> =>
                /\ Len(NewLog) < Len(posts)
                /\ log_disk.torn = <<LogLine(posts[Len(NewLog) + 1])>>
          /\ backup_disk.torn # <<>> =>
                /\ Len(NewBackup) < Len(posts)
                /\ backup_disk.torn = <<BackupEntry(posts[Len(NewBackup) + 1])>>)
    /\ [][IsPrefix(log_disk.lines, log_disk'.lines)]_vars
    /\ [][IsPrefix(backup_disk.lines, backup_disk'.lines)]_vars

\* C16 witness: both files held a line before the run, which ended part-way
\* on a failed backup write; two log records and one backup entry have
\* reached the files after the old lines, and a fragment of the second entry
C16_Witness ==
    /\ error = "write_backup"
    /\ pc = "exited"
    /\ disk0.log.lines # <<>>
    /\ disk0.backup.lines # <<>>
    /\ Len(NewLog) = 2
    /\ Len(NewBackup) = 1
    /\ backup_disk.torn # <<>>
    /\ log_disk.lines[1] = OldLogLine
    /\ backup_disk.lines[1] = OldBackupEntry

\* Anything the run has done to the files or to the service
SideEffect ==
    \/ log_disk # disk0.log
    \/ backup_disk # disk0.backup
    \/ log_buf # <<>>
    \/ backup_buf # <<>>
    \/ f # "none"
    \/ backup_fh # "none"
    \/ \E r \in RKeys : delete_calls[r] > 0
    \/ removed # {}

\* C18 (paging completes before any side effect): as long as the run is
\* fetching, and after a run was ended by a failed login or page fetch, no
\* file has been opened, created or written and no delete has been issued;
\* whenever there is such an effect, every page of the feed has been fetched
\* and the last response carried no cursor.
C18_PagingBeforeEffects ==
    /\ pc \in {"login", "fetch"} => ~SideEffect
    /\ error \in {"login", "fetch"} => ~SideEffect
    /\ SideEffect =>
        /\ requests # <<>>
        /\ Len(requests) = Len(feed)
        /\ Falsy(Returned(Len(requests)))

\* C18 witness: the first page held matching posts, the fetch of the second
\* page failed for good, and the process has exited with nothing touched
C18_Witness ==
    /\ error = "fetch"
    /\ pc = "exited"
    /\ Len(requests) = 1
    /\ Len(posts) >= 1
    /\ ~SideEffect
    /\ disk0.log.lines # <<>>

\* In the processing phase of a non-preview run, the posts whose delete has
\* ended, the backup entries and the log records in the files, and the
\* matched posts, are in this order of size
C19_Ordered ==
    (~opts.preview_only /\ PagingOver) =>
        /\ Concluded <= Len(NewBackup)
        /\ Len(NewBackup) <= Len(NewLog)
        /\ Len(NewLog) <= Len(posts)

\* C19 (the claim as stated): in the processing phase of a non-preview run
\* deleted + failed <= backup entries written <= log records written <=
\* matched, and each of the three adjacent pairs differs by at most 1; in a
\* preview run the log records written never exceed matched and equal
\* matched when the result is returned.  The entries and records written
\* are those the files hold after the lines they held before the run.
C19_AllPairsWithinOne ==
    /\ C19_Ordered
    /\ (~opts.preview_only /\ PagingOver) =>
        /\ Len(NewBackup) - Concluded <= 1
        /\ Len(NewLog) - Len(NewBackup) <= 1
        /\ Len(posts) - Len(NewLog) <= 1
    /\ opts.preview_only =>
        /\ Len(NewLog) <= Len(posts)
        /\ result.returned => Len(NewLog) = result.matched

\* C20 (an empty match set touches nothing): a returned result with matched
\* = 0 has deleted = failed = 0, and the run has opened, created or written
\* neither file and issued no delete, with preview_only set or not.
C20_EmptyTouchesNothing ==
    (result.returned /\ result.matched = 0) =>
        /\ Len(posts) = 0
        /\ result.deleted = 0
        /\ result.failed = 0
        /\ ~SideEffect
        /\ log_disk.exists = disk0.log.exists
        /\ backup_disk.exists = disk0.backup.exists

\* C20 witness: a non-preview run fetched posts, none passed the filter, and
\* it returned with the files still absent
C20_Witness ==
    /\ result.returned
    /\ result.matched = 0
    /\ ~opts.preview_only
    /\ Len(FeedPosts) >= 2
    /\ ~log_disk.exists
    /\ ~backup_disk.exists
    /\ pc = "exited"

====
